---- MODULE Spec2Model ----
(***************************************************************************)
(* zstd_decompress_fd (Sources/ContainerizationArchive/CArchive/           *)
(* archive_swift_bridge.c): the streaming decompression bridge between two *)
(* file descriptors, together with a byte-level model of the streaming     *)
(* codec it drives (libzstd's ZSTD_decompressStream in buffered mode) at a *)
(* reduced scale: one-byte magic, one-byte block headers with zstd's bit   *)
(* layout (bit 0 last-block, bits 1-2 block type, the rest the size), raw  *)
(* and RLE blocks.                                                         *)
(***************************************************************************)
EXTENDS Integers, Sequences, FiniteSets, TLC

\* ------------------------------------------------------------------------
\* Scale of the model
\* ------------------------------------------------------------------------
\* longest plaintext the source stream is built from
MaxLen == 5
\* largest block the toy frame format allows (ZSTD_BLOCKSIZE_MAX)
BlockSizeMax == 3
\* size of a block header in bytes (ZSTD_blockHeaderSize)
BlockHeaderSize == 1
\* first byte of ZSTD_MAGICNUMBER (0xFD2FB528, little endian)
Magic == 40
DataByte == {0, 1}

Min(a, b) == IF a < b THEN a ELSE b
Max(a, b) == IF a > b THEN a ELSE b

Take(s, n) == SubSeq(s, 1, n)
Drop(s, n) == SubSeq(s, n + 1, Len(s))

\* ------------------------------------------------------------------------
\* Frame format and the reference compressor
\* ------------------------------------------------------------------------
bt_raw == 0
bt_rle == 1
bt_reserved == 3

BlockHeader(last, type, size) == (IF last THEN 1 ELSE 0) + 2 * type + 8 * size
HdrLast(h) == h % 2 = 1
HdrType(h) == (h \div 2) % 4
HdrSize(h) == h \div 8

\* a byte that is no magic number and, read as a block header, has the
\* reserved block type
BadByte == BlockHeader(FALSE, bt_reserved, 0)

\* bytes of block content that follow the header h in the stream
CSize(h) == IF HdrType(h) = bt_rle THEN 1 ELSE HdrSize(h)

AllSame(b) == \A i \in 1..Len(b) : b[i] = b[1]

CompressBlock(b, last) ==
    IF Len(b) >= 2 /\ AllSame(b)
    THEN <<BlockHeader(last, bt_rle, Len(b)), b[1]>>
    ELSE <<BlockHeader(last, bt_raw, Len(b))>> \o b

RECURSIVE CompressBlocks(_, _)
CompressBlocks(B, bs) ==
    IF Len(B) <= bs
    THEN CompressBlock(B, TRUE)
    ELSE CompressBlock(Take(B, bs), FALSE) \o CompressBlocks(Drop(B, bs), bs)

\* the reference compressor: one frame, blocks of at most bs bytes
Compress(B, bs) == <<Magic>> \o CompressBlocks(B, bs)

\* ------------------------------------------------------------------------
\* The streaming codec (ZSTD_DStream)
\* ------------------------------------------------------------------------
NoHdr == -1

\* a ZSTD_DStream after ZSTD_initDStream
InitialDStream ==
    [stage       |-> "init",    \* zdss_init / zdss_read / zdss_load / zdss_flush
     hdr         |-> NoHdr,     \* header of the block whose content is awaited
     inBuff      |-> <<>>,      \* partially loaded block content
     outBuff     |-> <<>>,      \* decoded bytes not yet flushed
     frameDone   |-> FALSE,     \* the frame's last block was decoded
     hostageByte |-> FALSE]

ZSTD_error == -1
ZSTD_isError(code) == code < 0

DecodeBlock(h, content) ==
    IF HdrType(h) = bt_rle
    THEN [i \in 1..HdrSize(h) |-> content[1]]
    ELSE content

\* codec state after the content of block z.hdr has been decoded
AfterBlock(z, content) ==
    LET decoded == DecodeBlock(z.hdr, content)
    IN  [z EXCEPT !.hdr = NoHdr,
                  !.inBuff = <<>>,
                  !.frameDone = HdrLast(z.hdr),
                  !.outBuff = decoded,
                  !.stage = IF decoded = <<>> THEN "read" ELSE "flush"]

\* codec state after the block header h has been decoded
AfterHeader(z, h) ==
    IF CSize(h) = 0
    THEN [z EXCEPT !.hdr = NoHdr, !.frameDone = HdrLast(h), !.stage = "read"]
    ELSE [z EXCEPT !.hdr = h, !.stage = "read"]

HeaderOK(h) == HdrType(h) \in {bt_raw, bt_rle} /\ HdrSize(h) <= BlockSizeMax

\* the body of ZSTD_decompressStream: "while (someMoreWork) switch (stage)".
\* z: codec state, ip: input not yet consumed, op: output produced so far,
\* cap: output.size.  Yields the state the loop stops in.
RECURSIVE Work(_, _, _, _)
Work(z, ip, op, cap) ==
    LET stop == [z |-> z, ip |-> ip, op |-> op, err |-> FALSE]
        fail == [z |-> z, ip |-> ip, op |-> op, err |-> TRUE]
    IN
    CASE z.stage = "init" ->
            IF ip = <<>> THEN stop
            ELSE IF Head(ip) # Magic THEN fail
            ELSE Work([InitialDStream EXCEPT !.stage = "read"], Tail(ip), op, cap)
      [] z.stage = "read" ->
            IF z.frameDone THEN [stop EXCEPT !.z.stage = "init"]
            ELSE IF z.hdr = NoHdr
            THEN IF ip = <<>> THEN stop
                 ELSE IF ~HeaderOK(Head(ip)) THEN fail
                 ELSE Work(AfterHeader(z, Head(ip)), Tail(ip), op, cap)
            ELSE IF Len(ip) >= CSize(z.hdr)
            THEN Work(AfterBlock(z, Take(ip, CSize(z.hdr))),
                      Drop(ip, CSize(z.hdr)), op, cap)
            ELSE IF ip = <<>> THEN stop
            ELSE Work([z EXCEPT !.stage = "load"], ip, op, cap)
      [] z.stage = "load" ->
            LET toLoad == CSize(z.hdr) - Len(z.inBuff)
                loaded == Min(toLoad, Len(ip))
                buf    == z.inBuff \o Take(ip, loaded)
            IN  IF loaded < toLoad
                THEN [stop EXCEPT !.z.inBuff = buf, !.ip = Drop(ip, loaded)]
                ELSE Work(AfterBlock(z, buf), Drop(ip, loaded), op, cap)
      [] z.stage = "flush" ->
            LET toFlush == Len(z.outBuff)
                flushed == Min(cap - Len(op), toFlush)
                zf      == [z EXCEPT !.outBuff = Drop(z.outBuff, flushed)]
                opf     == op \o Take(z.outBuff, flushed)
            IN  IF flushed = toFlush
                THEN Work([zf EXCEPT !.stage = "read"], ip, opf, cap)
                ELSE [stop EXCEPT !.z = zf, !.op = opf]

\* ZSTD_decompressStream(zds, &output, &input) on a fresh output buffer of
\* capacity cap and the unconsumed input inp: the new codec state, the
\* number of input bytes consumed (the advance of input.pos), the bytes
\* produced (output.pos of them) and the returned code (0: frame complete
\* and flushed, > 0: more to do, an error code otherwise).
ZSTD_decompressStream(zds, inp, cap) ==
    LET w        == Work(zds, inp, <<>>, cap)
        consumed == Len(inp) - Len(w.ip)
    IN
    IF w.err
    THEN [zds |-> zds, consumed |-> 0, out |-> <<>>, result |-> ZSTD_error]
    ELSE IF ~w.z.frameDone
    THEN [zds |-> w.z, consumed |-> consumed, out |-> w.op, result |-> 1]
    ELSE IF w.z.outBuff = <<>>
    THEN IF w.z.hostageByte
         THEN IF consumed >= Len(inp)
              THEN [zds |-> [w.z EXCEPT !.stage = "read"],
                    consumed |-> consumed, out |-> w.op, result |-> 1]
              ELSE [zds |-> w.z, consumed |-> consumed + 1,
                    out |-> w.op, result |-> 0]
         ELSE [zds |-> w.z, consumed |-> consumed, out |-> w.op, result |-> 0]
    ELSE IF ~w.z.hostageByte
    THEN [zds |-> [w.z EXCEPT !.hostageByte = TRUE],
          consumed |-> consumed - 1, out |-> w.op, result |-> 1]
    ELSE [zds |-> w.z, consumed |-> consumed, out |-> w.op, result |-> 1]

\* ------------------------------------------------------------------------
\* zstd_decompress_fd
\* ------------------------------------------------------------------------
VARIABLES
    pc,          \* position in zstd_decompress_fd
    src,         \* content of the file behind src_fd
    srcPos,      \* file offset of src_fd
    dst,         \* bytes accepted by dst_fd, in write order
    dstream,     \* the ZSTD_DStream's state
    heap,        \* dstream / in_buf / out_buf: "none", "held" or "freed"
    frees,       \* how often each of them was released
    uaf,         \* a released or never acquired resource was used
    bytes_read,  \* result of the last read()
    input,       \* ZSTD_inBuffer: [buf, size, pos]
    output,      \* bytes the last step staged in out_buf (output.pos of them)
    rc,
    ret,         \* the value returned, NoRet before the return
    fault,       \* the failure the environment injected, "none" if none
    produced     \* all bytes the decompression steps produced, in order

vars == <<pc, src, srcPos, dst, dstream, heap, frees, uaf, bytes_read, input,
          output, rc, ret, fault, produced>>

NoRet == -1
\* bytes_read before the first read()
Unset == -2
Resources == {"dstream", "in_buf", "out_buf"}

\* ZSTD_DStreamInSize() and ZSTD_DStreamOutSize()
in_size == BlockSizeMax + BlockHeaderSize
out_size == BlockSizeMax

\* plaintexts, their compressed frames, and the streams a file may hold:
\* a frame, a frame cut off anywhere, a frame with one byte damaged
Plain == UNION {[1..n -> DataByte] : n \in 0..MaxLen}
Frames == {Compress(B, bs) : B \in Plain, bs \in 1..BlockSizeMax}
Prefixes(s) == {Take(s, n) : n \in 0..Len(s)}
Damaged(s) == {[s EXCEPT ![i] = BadByte] : i \in 1..Len(s)}
\* what may follow a frame in the file: another frame, or garbage
Trailers == {Compress(<<>>, 1), Compress(<<1>>, 1), <<BadByte>>}
Sources ==
    UNION {Prefixes(s) \cup Damaged(s) \cup {s \o t : t \in Trailers} : s \in Frames}

Init ==
    /\ pc = "create"
    /\ src \in Sources
    /\ srcPos = 0
    /\ dst = <<>>
    /\ dstream = InitialDStream
    /\ heap = [r \in Resources |-> "none"]
    /\ frees = [r \in Resources |-> 0]
    /\ uaf = FALSE
    /\ bytes_read = Unset
    /\ input = [buf |-> <<>>, size |-> 0, pos |-> 0]
    /\ output = <<>>
    /\ rc = 0
    /\ ret = NoRet
    /\ fault = "none"
    /\ produced = <<>>

\* free(p) / ZSTD_freeDStream(p): a no-op on NULL
Free(h, r) == IF h[r] = "none" THEN h ELSE [h EXCEPT ![r] = "freed"]
FreeCount(h, f, r) == IF h[r] = "none" THEN f ELSE [f EXCEPT ![r] = @ + 1]

\* variant: out_buf is never released
FreeAll_LeaksOutBuf(h) == Free(Free(h, "in_buf"), "dstream")

\* the releases at "done:" and in the allocation-failure branch
FreeAll(h) == Free(Free(Free(h, "in_buf"), "out_buf"), "dstream")
FreeAllCount(h, f) ==
    LET f1 == FreeCount(h, f, "in_buf")
        h1 == Free(h, "in_buf")
        f2 == FreeCount(h1, f1, "out_buf")
        h2 == Free(h1, "out_buf")
    IN  FreeCount(h2, f2, "dstream")

Used(rs) == \E r \in rs : heap[r] # "held"

Return(v) == pc' = "returned" /\ ret' = v

\* ZSTD_createDStream(); if (!dstream) return 1;
CreateDStream ==
    /\ pc = "create"
    /\ \E ok \in BOOLEAN :
         IF ok
         THEN /\ heap' = [heap EXCEPT !["dstream"] = "held"]
              /\ pc' = "init"
              /\ UNCHANGED <<ret, fault>>
         ELSE /\ Return(1)
              /\ fault' = "create"
              /\ UNCHANGED heap
    /\ UNCHANGED <<src, srcPos, dst, dstream, frees, uaf, bytes_read, input,
                   output, rc, produced>>

\* ZSTD_initDStream(dstream); on error free the context and return 1
InitDStream ==
    /\ pc = "init"
    /\ uaf' = (uaf \/ Used({"dstream"}))
    /\ \E ok \in BOOLEAN :
         IF ok
         THEN /\ dstream' = InitialDStream
              /\ pc' = "alloc"
              /\ UNCHANGED <<heap, frees, ret, fault>>
         ELSE /\ heap' = Free(heap, "dstream")
              /\ frees' = FreeCount(heap, frees, "dstream")
              /\ Return(1)
              /\ fault' = "init"
              /\ UNCHANGED dstream
    /\ UNCHANGED <<src, srcPos, dst, bytes_read, input, output, rc, produced>>

\* variant: the check fails only when both allocations failed
AllocFailed_BothOnly(inOk, outOk) == ~inOk /\ ~outOk

AllocFailed(inOk, outOk) == ~inOk \/ ~outOk

\* the two malloc() calls and the check of their results
AllocBuffers ==
    /\ pc = "alloc"
    /\ \E inOk, outOk \in BOOLEAN :
         LET h == [heap EXCEPT !["in_buf"] = IF inOk THEN "held" ELSE "none",
                               !["out_buf"] = IF outOk THEN "held" ELSE "none"]
         IN  IF AllocFailed(inOk, outOk)
             THEN /\ heap' = FreeAll(h)
                  /\ frees' = FreeAllCount(h, frees)
                  /\ Return(1)
                  /\ fault' = "alloc"
                  /\ UNCHANGED rc
             ELSE /\ heap' = h
                  /\ rc' = 0
                  /\ pc' = "read"
                  /\ UNCHANGED <<frees, ret, fault>>
    /\ UNCHANGED <<src, srcPos, dst, dstream, uaf, bytes_read, input, output,
                   produced>>

\* what read(src_fd, in_buf, count) may return: an error, 0 at end of file,
\* or any positive number of bytes up to count and to what the file holds
ReadResults(count) ==
    {-1} \cup (IF srcPos = Len(src) THEN {0}
               ELSE 1..Min(count, Len(src) - srcPos))

\* variant: a read asks for one byte more than in_buf holds
ReadCount_Overflow == in_size + 1

\* the number of bytes each read() asks for
ReadCount == in_size

\* variant: the inner loop goes on when the chunk is used up
InputPending_Inclusive(inp) == inp.pos <= inp.size

\* variant: the last byte of a chunk is never handed to the codec
InputPending_OffByOne(inp) == inp.pos + 1 < inp.size

\* "while (input.pos < input.size)"
InputPending(inp) == inp.pos < inp.size

\* variant: one decompression step per chunk, no inner loop
NextInLoop_SingleStep(inp) == "read"

\* where control goes after a step (and its write) went through
NextInLoop(inp) == IF InputPending(inp) THEN "decompress" ELSE "read"

\* variant: a failed read is taken for the end of the stream
RcAfterLoop_IgnoresError(n, r) == r

\* variant: the end of the stream is taken for a failed read
RcAfterLoop_EofIsError(n, r) == IF n <= 0 THEN 1 ELSE r

\* "if (bytes_read < 0) rc = 1;"
RcAfterLoop(n, r) == IF n < 0 THEN 1 ELSE r

\* "while ((bytes_read = read(src_fd, in_buf, in_size)) > 0)" with the
\* declaration of input, and the statement after the loop when it ends
Read ==
    /\ pc = "read"
    /\ uaf' = (uaf \/ Used({"in_buf"}))
    /\ \E n \in ReadResults(ReadCount) :
         /\ bytes_read' = n
         /\ IF n > 0
            THEN /\ input' = [buf  |-> SubSeq(src, srcPos + 1, srcPos + n),
                              size |-> n, pos |-> 0]
                 /\ srcPos' = srcPos + n
                 /\ pc' = NextInLoop(input')
                 /\ UNCHANGED <<rc, fault>>
            ELSE /\ rc' = RcAfterLoop(n, rc)
                 /\ fault' = IF n < 0 THEN "read" ELSE fault
                 /\ pc' = "done"
                 /\ UNCHANGED <<input, srcPos>>
    /\ UNCHANGED <<src, dst, dstream, heap, frees, output, ret, produced>>

\* variant: only a full output buffer is written
HasOutput_OnlyFull(out) == Len(out) >= out_size

\* "if (output.pos > 0)"
HasOutput(out) == Len(out) > 0

\* variant: the codec's result is not checked
StepFailed_Never(result) == FALSE

\* "if (ZSTD_isError(result))"
StepFailed(result) == ZSTD_isError(result)

\* variant: output.pos is not reset, a step gets the room the last one left
OutputCapacity_NotReset(staged) == out_size - Len(staged)

\* "ZSTD_outBuffer output = { out_buf, out_size, 0 }": the room a step gets,
\* whatever the step before it staged
OutputCapacity(staged) == out_size

\* one pass of the inner loop up to the write: a fresh output buffer, one
\* ZSTD_decompressStream call, the error check
Decompress ==
    /\ pc = "decompress"
    /\ uaf' = (uaf \/ Used({"dstream", "in_buf", "out_buf"}))
    /\ LET r == ZSTD_decompressStream(dstream,
                    SubSeq(input.buf, input.pos + 1, input.size),
                    OutputCapacity(output))
       IN  /\ fault' = IF ZSTD_isError(r.result) THEN "codec" ELSE fault
           /\ dstream' = r.zds
           /\ input' = [input EXCEPT !.pos = @ + r.consumed]
           /\ output' = r.out
           /\ produced' = produced \o r.out
           /\ IF StepFailed(r.result)
              THEN rc' = 1 /\ pc' = "done"
              ELSE /\ pc' = IF HasOutput(r.out) THEN "write" ELSE NextInLoop(input')
                   /\ UNCHANGED rc
    /\ UNCHANGED <<src, srcPos, dst, heap, frees, bytes_read, ret>>

\* what write(dst_fd, out_buf, count) may return: an error or any number of
\* bytes accepted, up to count
WriteResults(count) == -1..count

\* the number of bytes a write() asks for
WriteCount(out) == Len(out)

\* variant: only a failed write counts, a partial one is accepted
ShortWrite_OnlyErrors(written, pos) == written < 0

\* "if (written != (ssize_t)output.pos)"
ShortWrite(written, pos) == written # pos

\* write(dst_fd, out_buf, output.pos) and the check of its result
Write ==
    /\ pc = "write"
    /\ uaf' = (uaf \/ Used({"out_buf"}))
    /\ \E written \in WriteResults(WriteCount(output)) :
         /\ dst' = dst \o Take(output, Max(written, 0))
         /\ fault' = IF written # Len(output) THEN "write" ELSE fault
         /\ IF ShortWrite(written, Len(output))
            THEN rc' = 1 /\ pc' = "done"
            ELSE pc' = NextInLoop(input) /\ UNCHANGED rc
    /\ UNCHANGED <<src, srcPos, dstream, heap, frees, bytes_read, input, output,
                   ret, produced>>

\* "done:" free(in_buf); free(out_buf); ZSTD_freeDStream(dstream); return rc;
Done ==
    /\ pc = "done"
    /\ heap' = FreeAll(heap)
    /\ frees' = FreeAllCount(heap, frees)
    /\ Return(rc)
    /\ UNCHANGED <<src, srcPos, dst, dstream, uaf, bytes_read, input, output,
                   rc, fault, produced>>

Next ==
    \/ CreateDStream
    \/ InitDStream
    \/ AllocBuffers
    \/ Read
    \/ Decompress
    \/ Write
    \/ Done

Spec == Init /\ [][Next]_vars

\* ------------------------------------------------------------------------
\* Reference decoding
\* ------------------------------------------------------------------------
\* an output capacity no stream of the model can fill
Unbounded == (MaxLen + 2) * (BlockSizeMax + 1) * 2

\* the stream s decoded in one pass: all of it handed to the codec at once,
\* with an output buffer that never fills
RECURSIVE OnePassFrom(_, _, _)
OnePassFrom(z, inp, out) ==
    IF inp = <<>>
    THEN [out |-> out, rc |-> 0, zds |-> z]
    ELSE LET r == ZSTD_decompressStream(z, inp, Unbounded)
         IN  IF ZSTD_isError(r.result)
             THEN [out |-> out, rc |-> 1, zds |-> z]
             ELSE OnePassFrom(r.zds, Drop(inp, r.consumed), out \o r.out)

OnePass(s) == OnePassFrom(InitialDStream, s, <<>>)

\* s is zero or more complete frames
Complete(s) == OnePass(s).rc = 0 /\ OnePass(s).zds.stage = "init"

Returned == pc = "returned"
SetupFaults == {"create", "init", "alloc"}
Acquired(r) == heap[r] # "none"

SetupDone == (\A r \in Resources : Acquired(r)) /\ fault \notin SetupFaults
Aborted == pc \in {"done", "returned"}

\* ------------------------------------------------------------------------
\* Properties
\* ------------------------------------------------------------------------

\* C1: zstd_decompress_fd returns 0 exactly when the three setup steps
\* succeeded and the read loop ended on a zero-byte read with no codec error
\* and no short write before it; every failure returns the same value, 1.
ReturnContract ==
    Returned =>
        /\ ret \in {0, 1}
        /\ ret = 0 <=> (SetupDone /\ bytes_read = 0 /\ fault \notin {"codec", "write"})
        /\ fault # "none" => ret = 1

ReturnContractWitness ==
    Returned /\ ret = 0 /\ SetupDone /\ bytes_read = 0 /\ Len(dst) > out_size

\* C2: a stream cut off mid-frame (end of file while the codec is inside a
\* frame, no error reported, no failure injected) makes the call fail.
TruncatedStreamFails ==
    (Returned /\ fault = "none" /\ dstream.stage # "init") => ret # 0

\* C3: on every exit path each resource acquired in the call is released
\* exactly once before the return, none twice, none used after its release,
\* none still held after the return.
ResourcesReleasedOnce ==
    /\ ~uaf
    /\ \A r \in Resources :
         /\ frees[r] <= 1
         /\ heap[r] = "freed" <=> frees[r] = 1
         /\ Returned => heap[r] # "held"

ResourcesReleasedOnceWitness ==
    /\ Returned
    /\ fault = "alloc"
    /\ heap = [dstream |-> "freed", in_buf |-> "freed", out_buf |-> "none"]

\* C4: round trip.  When the file holds Compress(B), no failure is injected
\* and every write is accepted in full, the call succeeds and the bytes
\* written are exactly B.
RoundTrip ==
    (Returned /\ fault = "none") =>
        \A B \in Plain : \A bs \in 1..BlockSizeMax :
            src = Compress(B, bs) => (ret = 0 /\ dst = B)

\* a round trip in which decoded bytes had to wait inside the codec for the
\* next step (the frame's last byte was held back until they were flushed)
RoundTripWitness ==
    /\ Returned /\ fault = "none" /\ ret = 0
    /\ src \in Frames
    /\ dstream.hostageByte
    /\ Len(dst) > out_size

\* C5 as stated: for every stream, the bytes written and the status are
\* those of decoding the stream in one pass, however the reads split it.
StreamingEquivalenceAnyStream ==
    (Returned /\ fault \in {"none", "codec"}) =>
        (ret = OnePass(src).rc /\ dst = OnePass(src).out)

\* C5 amended: the status is that of the one-pass decoding for every stream
\* and every split; the bytes written are those of the one-pass decoding
\* when the stream is complete (whole frames, no error).
StreamingEquivalence ==
    (Returned /\ fault \in {"none", "codec"}) =>
        /\ ret = OnePass(src).rc
        /\ Complete(src) => dst = OnePass(src).out

\* a complete stream delivered one byte at a time, more than one output
\* buffer of data
StreamingEquivalenceWitness ==
    /\ Returned /\ fault = "none"
    /\ Complete(src) /\ Len(src) > in_size
    /\ input.size = 1 /\ srcPos = Len(src)
    /\ Len(dst) > out_size

\* C6: once a write accepted fewer bytes than requested, the call does
\* nothing but clean up and return non-zero: no read, no decompression
\* step, no write follows.
ShortWriteAborts ==
    /\ [](fault = "write" => (Aborted /\ rc # 0 /\ (Returned => ret # 0)))
    /\ [][fault = "write" =>
            UNCHANGED <<dst, srcPos, dstream, input, output, bytes_read>>]_vars

ShortWriteAbortsWitness ==
    /\ Returned /\ fault = "write" /\ ret = 1
    /\ Len(dst) > 0 /\ srcPos < Len(src)

\* C7: once the codec reported an error, the call does nothing but clean up
\* and return non-zero: nothing the failing step staged is written, and
\* what was written before stays.
CodecErrorAborts ==
    /\ [](fault = "codec" =>
            (Aborted /\ rc # 0 /\ output = <<>> /\ (Returned => ret # 0)))
    /\ [][fault' = "codec" =>
            UNCHANGED <<dst, srcPos, bytes_read>>]_vars
    /\ [][fault = "codec" =>
            UNCHANGED <<dst, srcPos, dstream, input, output, bytes_read>>]_vars

CodecErrorAbortsWitness ==
    /\ Returned /\ fault = "codec" /\ ret = 1
    /\ Len(dst) > 0 /\ srcPos < Len(src)

\* C8 as stated: when a read fails, the call fails and the destination
\* holds all the output the chunks read so far decode to, each chunk having
\* been consumed in full; nothing is written or decoded afterwards.
ReadErrorKeepsAllDecoded ==
    (Returned /\ fault = "read") =>
        (ret # 0 /\ dst = OnePass(Take(src, srcPos)).out)

\* C8 amended: when a read fails, the call fails, each chunk read so far was
\* consumed in full, and the destination holds the output those chunks
\* decode to except the decoded bytes still waiting inside the codec for
\* room in the output buffer (no extra byte, none missing but these);
\* nothing is written or decoded afterwards.
ReadErrorKeepsFlushedPrefix ==
    /\ [](fault = "read" =>
            /\ Aborted /\ rc # 0 /\ (Returned => ret # 0)
            /\ input.pos = input.size
            /\ dst \o dstream.outBuff = OnePass(Take(src, srcPos)).out)
    /\ [][fault = "read" =>
            UNCHANGED <<dst, srcPos, dstream, input, output, bytes_read>>]_vars

\* a read failing while decoded bytes wait inside the codec
ReadErrorKeepsFlushedPrefixWitness ==
    /\ Returned /\ fault = "read" /\ ret = 1
    /\ srcPos > in_size
    /\ Len(dst) > 0
    /\ dstream.outBuff # <<>>

\* C9: reads, decompression steps and writes happen only after the context
\* was created and initialised and both buffers were allocated; when setup
\* fails nothing was read and nothing written.
SetupPrecedesIO ==
    /\ pc \in {"read", "decompress", "write"} =>
            (SetupDone /\ \A r \in Resources : heap[r] = "held")
    /\ ~SetupDone =>
            (srcPos = 0 /\ dst = <<>> /\ bytes_read = Unset /\ output = <<>>)
    /\ (Returned /\ fault \in SetupFaults) => bytes_read = Unset

SetupPrecedesIOWitness ==
    /\ Returned /\ fault = "alloc" /\ ret = 1
    /\ heap["out_buf"] = "freed" /\ heap["in_buf"] = "none"
    /\ src # <<>>

\* C10: an empty frame, and a source whose first read returns zero bytes,
\* give success with nothing written.
EmptyInput ==
    (Returned /\ fault = "none"
        /\ src \in {<<>>} \cup {Compress(<<>>, bs) : bs \in 1..BlockSizeMax}) =>
        (ret = 0 /\ dst = <<>>)

EmptyInputWitness ==
    /\ Returned /\ fault = "none" /\ ret = 0 /\ dst = <<>>
    /\ src = Compress(<<>>, 1)
    /\ srcPos = Len(src)

\* the input a decompression step is given: the chunk past input.pos
Unconsumed == SubSeq(input.buf, input.pos + 1, input.size)

\* C11: the output buffer is flushed before it is reused.  Every step starts
\* at output position 0 with the whole capacity; whatever a step produced is
\* written in one write before the next step or read; so the destination
\* holds the steps' outputs in the order they were produced.
OutputFlushedBeforeReuse ==
    /\ [](/\ pc \in {"read", "decompress"} => dst = produced
          /\ pc = "write" => (output # <<>> /\ produced = dst \o output))
    /\ [][pc = "decompress" =>
            output' = ZSTD_decompressStream(dstream, Unconsumed, out_size).out]_vars
    /\ [][(pc = "write" /\ pc' # "done") => dst' = dst \o output]_vars

\* a step about to reuse the buffer after a full buffer was written, with
\* more decoded bytes waiting in the codec
OutputFlushedBeforeReuseWitness ==
    /\ pc = "decompress"
    /\ Len(output) = out_size
    /\ dst = produced /\ Len(dst) >= out_size
    /\ dstream.outBuff # <<>>

\* C12: the input buffer is refilled only when fully consumed.  Wherever a
\* read is issued the chunk before it, if any, has position = size, and no
\* step that changes the chunk or the file offset starts with input pending.
InputRefilledWhenConsumed ==
    /\ [](pc = "read" => input.pos = input.size)
    /\ [][(input'.buf # input.buf \/ input'.size # input.size
             \/ srcPos' # srcPos \/ bytes_read' # bytes_read)
            => (pc = "read" /\ ~InputPending(input))]_vars

\* a refill after a full chunk that took several steps to consume
InputRefilledWhenConsumedWitness ==
    /\ pc = "read"
    /\ input.size = in_size /\ input.pos = input.size
    /\ srcPos = in_size + 1
    /\ Len(produced) > out_size
    /\ srcPos < Len(src)

\* C13: on success every byte read from the source was consumed by the
\* codec: at the terminating zero-byte read no input is pending, and the
\* whole file was read.
SuccessConsumedAllInput ==
    (Returned /\ ret = 0) =>
        /\ bytes_read = 0
        /\ ~InputPending(input)
        /\ srcPos = Len(src)
        /\ dst = produced

\* success on a frame whose last byte the codec held back until the
\* decoded bytes were flushed
SuccessConsumedAllInputWitness ==
    /\ Returned /\ ret = 0
    /\ dstream.hostageByte
    /\ input.size > 1 /\ input.pos = input.size
    /\ srcPos = Len(src) /\ src \in Frames

\* C14: buffer bounds.  A read asks for at most the input capacity and a
\* chunk never exceeds it; 0 <= input.pos <= input.size <= in_size and
\* input.pos never decreases within a chunk; 0 <= output.pos <= out_size; a
\* write is issued only for a step that produced output, asks for output.pos
\* bytes (never zero, never more than out_size) and the destination takes no
\* more than that.
BufferBounds ==
    /\ [](/\ ReadCount <= in_size
          /\ bytes_read <= in_size
          /\ 0 <= input.pos /\ input.pos <= input.size /\ input.size <= in_size
          /\ Len(input.buf) = input.size
          /\ Len(output) <= out_size
          /\ pc = "write" =>
                (WriteCount(output) = Len(output) /\ 0 < WriteCount(output)
                    /\ WriteCount(output) <= out_size))
    /\ [][srcPos' = srcPos => input'.pos >= input.pos]_vars
    /\ [][dst' # dst =>
            (pc = "write" /\ Len(dst') <= Len(dst) + Len(output))]_vars

\* both buffers filled to capacity, a write of out_size bytes pending
BufferBoundsWitness ==
    /\ pc = "write"
    /\ input.size = in_size
    /\ Len(output) = out_size
    /\ input.pos < input.size

\* the frame's last byte is held back: counted as unconsumed by input.pos,
\* though the codec has decoded it
HostageHeld == dstream.hostageByte /\ dstream.stage = "flush"

\* what is left to do, as a number that every step lowers: the bytes of the
\* file not yet read, then the bytes of the chunk the codec has not decoded
\* and the decoded bytes it has not handed out, then the position in the
\* function
PcRank ==
    CASE pc = "create"     -> 7
      [] pc = "init"       -> 6
      [] pc = "alloc"      -> 5
      [] pc = "write"      -> 4
      [] pc = "decompress" -> 3
      [] pc = "read"       -> 2
      [] pc = "done"       -> 1
      [] pc = "returned"   -> 0

ChunkWork ==
    ((input.size - input.pos) - (IF HostageHeld THEN 1 ELSE 0)) * (BlockSizeMax + 1)
        + Len(dstream.outBuff)

WorkLeft ==
    (Len(src) - srcPos) * ((in_size + 1) * (BlockSizeMax + 1) * 8)
        + ChunkWork * 8 + PcRank

\* C15: termination.  With a source that ends (or fails) after finitely
\* many positive reads and calls that return, zstd_decompress_fd returns:
\* until it has returned a step can always be taken (a decompression step
\* is a call with a defined result, evaluated below), and every step lowers
\* WorkLeft, which is never negative.  In particular every decompression
\* step that reports no error moves input.pos forward or produces output.
Terminates ==
    /\ [](/\ \/ Returned
             \/ pc = "decompress"
             \/ ENABLED (CreateDStream \/ InitDStream \/ AllocBuffers
                            \/ Read \/ Write \/ Done)
          /\ WorkLeft >= 0
          /\ ChunkWork <= in_size * (BlockSizeMax + 1) + BlockSizeMax
          /\ pc = "decompress" =>
                LET r == ZSTD_decompressStream(dstream, Unconsumed,
                                               OutputCapacity(output))
                IN  \/ ZSTD_isError(r.result)
                    \/ r.consumed > 0
                    \/ r.out # <<>>)
    /\ [][WorkLeft' < WorkLeft]_vars

\* the last chunk read, all of it decoded, and a step that ended one byte
\* short of input.size: the frame's last byte stays held back while the
\* decoded bytes are handed out
TerminatesWitness ==
    /\ pc = "write"
    /\ HostageHeld
    /\ input.pos + 1 = input.size
    /\ Len(output) = out_size
    /\ srcPos = Len(src)

====
